---- MODULE Spec2Model ----
(***************************************************************************)
(* A model of distlib/locators.py: the scraping locator's crawler engine   *)
(* (worker threads, work queue, seen-set, fetch cache, result              *)
(* accumulation), the filename parser, and the API-backed and aggregating  *)
(* locators.  URLs are strings; the URL functions work on their            *)
(* characters.                                                             *)
(***************************************************************************)
EXTENDS Integers, Sequences, FiniteSets, TLC

(***************************************************************************)
(* Bounds of the model.                                                    *)
(***************************************************************************)
\* Largest num_workers a locator is constructed with.
MaxWorkers == 2
\* Largest number of links on one page.
MaxLinks == 2
\* Number of get_project calls made on one locator instance.
MaxCalls == 2
\* Largest number of locators an AggregatingLocator is built from.
MaxLocators == 2
\* Number of get_page calls made directly on one locator instance.
MaxPageCalls == 3

(***************************************************************************)
(* Strings.  An intermediate value that is used more than once is bound    *)
(* as the element of a one-element set, so that it is computed once.       *)
(***************************************************************************)
Only(S) == CHOOSE x \in S : TRUE

Ch(s, i) == SubSeq(s, i, i)

From(s, i) == SubSeq(s, i, Len(s))

StartsWith(s, p) == Len(p) <= Len(s) /\ SubSeq(s, 1, Len(p)) = p

EndsWith(s, p) == Len(p) <= Len(s) /\ SubSeq(s, Len(s) - Len(p) + 1, Len(s)) = p

IsIn(c, chars) == \E i \in 1..Len(chars) : Ch(chars, i) = c

\* Index of the first character of s, at or after position i, that is one of
\* chars; 0 when there is none.
RECURSIVE FindAny(_, _, _)
FindAny(s, chars, i) ==
    IF i > Len(s) THEN 0
    ELSE IF IsIn(Ch(s, i), chars) THEN i
    ELSE FindAny(s, chars, i + 1)

\* s.find(c) + 1: index of the first occurrence of the character c in s.
Find(s, c) == FindAny(s, c, 1)

\* s.rfind(c) + 1: index of the last occurrence of the character c in s.
RECURSIVE RFindFrom(_, _, _)
RFindFrom(s, c, i) ==
    IF i < 1 THEN 0
    ELSE IF Ch(s, i) = c THEN i
    ELSE RFindFrom(s, c, i - 1)

RFind(s, c) == RFindFrom(s, c, Len(s))

UpperChars == "ABCDEFGHIJKLMNOPQRSTUVWXYZ"

LowerChars == "abcdefghijklmnopqrstuvwxyz"

DigitChars == "0123456789"

LowerChar(c) ==
    IF IsIn(c, UpperChars)
    THEN Ch(LowerChars, Find(UpperChars, c))
    ELSE c

\* s.lower()
RECURSIVE LowerFrom(_, _)
LowerFrom(s, i) ==
    IF i > Len(s) THEN "" ELSE LowerChar(Ch(s, i)) \o LowerFrom(s, i + 1)

Lower(s) == LowerFrom(s, 1)

IsDigit(c) == IsIn(c, DigitChars)

\* Length of the longest run of characters of chars in s that starts at
\* position i.
RECURSIVE RunFrom(_, _, _)
RunFrom(s, chars, i) ==
    IF i > Len(s) \/ ~IsIn(Ch(s, i), chars) THEN 0
    ELSE 1 + RunFrom(s, chars, i + 1)

\* The value None of the source, where a string is expected.
None == "None"

\* <<s up to the first c, s after it>>; <<s, "">> when c is not in s.
SplitAt(s, c) ==
    Only({IF k > 0 THEN <<SubSeq(s, 1, k - 1), From(s, k + 1)>> ELSE <<s, "">> :
            k \in {Find(s, c)}})

(***************************************************************************)
(* urlparse / urlunparse of the standard library, as far as the source     *)
(* uses them: the six components of a URL; an unbalanced bracket in the    *)
(* network location raises ValueError.                                     *)
(***************************************************************************)
SchemeChars == LowerChars \o UpperChars \o DigitChars \o "+-."

\* <<scheme, rest>>: the scheme is what precedes the first colon, lowered.
SplitScheme(url) ==
    Only({IF colon > 1 /\ \A j \in 1..(colon - 1) : IsIn(Ch(url, j), SchemeChars)
          THEN <<Lower(SubSeq(url, 1, colon - 1)), From(url, colon + 1)>>
          ELSE <<"", url>> :
            colon \in {Find(url, ":")}})

\* <<netloc, rest>>: after //, the network location runs to the first of / ? #.
SplitNetloc(rest) ==
    IF StartsWith(rest, "//")
    THEN Only({IF n > 0
               THEN <<SubSeq(rest, 3, n - 1), From(rest, n)>>
               ELSE <<From(rest, 3), "">> :
                 n \in {FindAny(rest, "/?#", 3)}})
    ELSE <<"", rest>>

\* <<path, params>>: the parameters follow a semicolon in the last segment.
SplitParams(path) ==
    Only({Only({IF semi > 0
                THEN <<SubSeq(path, 1, slash + semi - 1), From(path, slash + semi + 1)>>
                ELSE <<path, "">> :
                  semi \in {Find(From(path, slash + 1), ";")}}) :
            slash \in {RFind(path, "/")}})

urlparse(url) ==
    Only({Only({Only({Only({Only({
        [raises |-> (Find(b[1], "[") > 0) # (Find(b[1], "]") > 0),
         scheme |-> a[1], netloc |-> b[1], path |-> e[1],
         params |-> e[2], query |-> d[2], frag |-> c[2]] :
            e \in {SplitParams(d[1])}}) :
            d \in {SplitAt(c[1], "?")}}) :
            c \in {SplitAt(b[2], "#")}}) :
            b \in {SplitNetloc(a[2])}}) :
            a \in {SplitScheme(url)}})

urlunparse(scheme, netloc, path, params, query, frag) ==
    (IF scheme # "" THEN scheme \o ":" ELSE "")
    \o (IF netloc # "" THEN "//" \o netloc ELSE "")
    \o path
    \o (IF params # "" THEN ";" \o params ELSE "")
    \o (IF query # "" THEN "?" \o query ELSE "")
    \o (IF frag # "" THEN "#" \o frag ELSE "")

(***************************************************************************)
(* Module constants of locators.py.                                        *)
(***************************************************************************)
EXTENSIONS == <<".tar.gz", ".tar.bz2", ".tar", ".zip", ".tgz", ".egg">>

EndsWithAny(s, exts) == \E i \in 1..Len(exts) : EndsWith(s, exts[i])

HexChars == "abcdef" \o DigitChars

\* MD5_HASH.match(frag): the digest, or None when frag is not md5=<hex>.
MD5_HASH(frag) ==
    IF /\ StartsWith(frag, "md5=")
       /\ Len(frag) > 4
       /\ \A i \in 5..Len(frag) : IsIn(Ch(frag, i), HexChars)
    THEN From(frag, 5)
    ELSE None

\* PYTHON_VERSION.search(s): the start of the leftmost match of
\* -py<digit>[.][<digit>] at the end of s, 0 when there is none.
PYTHON_VERSION(s) ==
    Only({IF /\ n >= 6 /\ SubSeq(s, n - 5, n - 3) = "-py" /\ IsDigit(Ch(s, n - 2))
             /\ Ch(s, n - 1) = "." /\ IsDigit(Ch(s, n))
          THEN n - 5
          ELSE IF /\ n >= 5 /\ SubSeq(s, n - 4, n - 2) = "-py" /\ IsDigit(Ch(s, n - 1))
                  /\ (Ch(s, n) = "." \/ IsDigit(Ch(s, n)))
          THEN n - 4
          ELSE IF n >= 4 /\ SubSeq(s, n - 3, n - 1) = "-py" /\ IsDigit(Ch(s, n))
          THEN n - 3
          ELSE 0 :
            n \in {Len(s)}})

NameChars == LowerChars \o UpperChars \o DigitChars \o "_.-"

VersionChars == DigitChars \o "_.-"

\* The largest k <= i with s[k+1] a hyphen and s[k+2] a digit; 0 when none.
RECURSIVE LastNameEnd(_, _)
LastNameEnd(s, i) ==
    IF i < 1 THEN 0
    ELSE IF i + 2 <= Len(s) /\ Ch(s, i + 1) = "-" /\ IsDigit(Ch(s, i + 2)) THEN i
    ELSE LastNameEnd(s, i - 1)

\* PROJECT_NAME_AND_VERSION.match(s): the greedy name takes the longest prefix
\* that is followed by a hyphen and a digit; the version takes what follows
\* the hyphen as far as its characters go.  The name is empty when there is
\* no match (a matched name has at least one character).
PROJECT_NAME_AND_VERSION(s) ==
    Only({IF k > 0
          THEN [name |-> SubSeq(s, 1, k),
                version |-> SubSeq(s, k + 2, k + 1 + RunFrom(s, VersionChars, k + 2))]
          ELSE [name |-> "", version |-> ""] :
            k \in {LastNameEnd(s, RunFrom(s, NameChars, 1))}})

\* posixpath.basename
basename(path) == From(path, RFind(path, "/") + 1)

(***************************************************************************)
(* Locator.convert_url_to_download_info                                    *)
(***************************************************************************)
\* The first extension of EXTENSIONS, .egg skipped, that the filename ends
\* with; 0 when there is none.
RECURSIVE MatchingExtensionFrom(_, _)
MatchingExtensionFrom(filename, i) ==
    IF i > Len(EXTENSIONS) THEN 0
    ELSE IF EXTENSIONS[i] # ".egg" /\ EndsWith(filename, EXTENSIONS[i]) THEN i
    ELSE MatchingExtensionFrom(filename, i + 1)

MatchingExtension(filename) == MatchingExtensionFrom(filename, 1)

\* The result None of convert_url_to_download_info: ok is FALSE.
NoInfo ==
    [ok |-> FALSE, name |-> "", version |-> "", filename |-> "", url |-> "",
     pyver |-> None, md5_digest |-> None]

\* The record built from the parsed URL p, the filename, the Python version
\* tag and the match m of the name and the version; None when there is no
\* match or the name is not the expected one.
DownloadInfo(p, filename, pyver, m, project_name) ==
    IF m.name = "" THEN NoInfo
    ELSE IF project_name # "" /\ Lower(project_name) # Lower(m.name) THEN NoInfo
    ELSE [ok |-> TRUE,
          name |-> m.name,
          version |-> m.version,
          filename |-> filename,
          url |-> urlunparse(p.scheme, p.netloc, p.path, p.params, p.query, ""),
          pyver |-> pyver,
          md5_digest |-> MD5_HASH(p.frag)]

\* The part of convert_url_to_download_info inside the loop over EXTENSIONS,
\* for the extension EXTENSIONS[e] that the filename ends with.
ParseFilename(p, filename, e, project_name) ==
    Only({Only({
        IF pv > 0
        THEN Only({DownloadInfo(p, filename, From(stem0, pv + 3), m, project_name) :
                    m \in {PROJECT_NAME_AND_VERSION(SubSeq(stem0, 1, pv - 1))}})
        ELSE Only({DownloadInfo(p, filename, None, m, project_name) :
                    m \in {PROJECT_NAME_AND_VERSION(stem0)}}) :
            pv \in {PYTHON_VERSION(stem0)}}) :
            stem0 \in {SubSeq(filename, 1, Len(filename) - Len(EXTENSIONS[e]))}})

convert_url_to_download_info(url, project_name) ==
    Only({IF ~EndsWithAny(p.path, EXTENSIONS) THEN NoInfo
          ELSE Only({Only({IF e = 0 THEN NoInfo
                           ELSE ParseFilename(p, filename, e, project_name) :
                            e \in {MatchingExtension(filename)}}) :
                        filename \in {basename(p.path)}}) :
            p \in {urlparse(url)}})

(***************************************************************************)
(* SimpleScrapingLocator._should_queue                                     *)
(***************************************************************************)
\* netloc.split(':', 1)[0]: the network location up to its first colon.
Host(netloc) == SplitAt(netloc, ":")[1]

\* _should_queue with the host compared as written, without lower().
ShouldQueueCaseSensitive(link, referrer) ==
    Only({IF EndsWithAny(p.path, EXTENSIONS \o <<".exe", ".pdf">>) THEN FALSE
          ELSE IF p.scheme \notin {"http", "https"} THEN FALSE
          ELSE IF Host(p.netloc) = "localhost" THEN FALSE
          ELSE TRUE :
            p \in {urlparse(link)}})

_should_queue(link, referrer) ==
    Only({IF EndsWithAny(p.path, EXTENSIONS \o <<".exe", ".pdf">>) THEN FALSE
          ELSE IF p.scheme \notin {"http", "https"} THEN FALSE
          ELSE IF Lower(Host(p.netloc)) = "localhost" THEN FALSE
          ELSE TRUE :
            p \in {urlparse(link)}})

(***************************************************************************)
(* The world the scraping locator runs in.                                 *)
(***************************************************************************)
\* The index URL of default_locator, after ensure_slash.
base_url == "http://pypi.python.org/simple/"

\* The project that get_project resolves.
project_name == "foo"

\* urljoin(self.base_url, '%s/' % quote(name)) for a name that needs no quoting.
SeedUrl(name) == base_url \o name \o "/"

\* The URLs that occur as links on the pages of the modelled web: the project
\* page, a page of another site, two archives of the same version (one with a
\* checksum, one on localhost), a page on localhost, and a link whose network
\* location makes urlparse raise.
LinkUniverse ==
    {SeedUrl(project_name),
     "http://example.com/ext/",
     "http://pypi.python.org/simple/foo/foo-1.0.tar.gz#md5=ab",
     "http://localhost/dl/foo-1.0.zip",
     "http://LocalHost:8080/simple/",
     "http://[bad/"}

\* Page.links of a page: a set of absolute URLs, given in the order in which
\* the set is iterated (an iteration order is fixed with the set object).
LinkSets ==
    UNION {{L \in [1..n -> LinkUniverse] : \A i, j \in 1..n : i # j => L[i] # L[j]} :
            n \in 0..MaxLinks}

\* What the transport returns for a URL: status 0 stands for URLError, a status
\* other than 200 for HTTPError; final is resp.geturl().
HtmlResponse(u, L) ==
    [status |-> 200, ctype |-> "text/html", enc |-> "", final |-> u, links |-> L]

NotFound(u) ==
    [status |-> 404, ctype |-> "", enc |-> "", final |-> u, links |-> <<>>]

\* The responses a URL may have in the crawled web.
Responses(u) == {HtmlResponse(u, L) : L \in LinkSets} \cup {NotFound(u)}

(***************************************************************************)
(* Page and SimpleScrapingLocator.get_page                                 *)
(***************************************************************************)
\* The result None of get_page.
NoPage == [isPage |-> FALSE, url |-> "", links |-> <<>>]

Page(links, url) == [isPage |-> TRUE, url |-> url, links |-> links]

\* HTML_CONTENT_TYPE.match(content_type)
HTML_CONTENT_TYPE(ctype) ==
    StartsWith(ctype, "text/html") \/ StartsWith(ctype, "application/xhtml")

\* SimpleScrapingLocator.decoders: the keys, and whether the decoder runs.
\* The gzip decoder reads the undefined name d and raises NameError.
DecoderRaises(enc) ==
    IF enc = "deflate" THEN FALSE
    ELSE IF enc = "gzip" THEN TRUE
    ELSE TRUE  \* KeyError: no such decoder

\* The value get_page computes from a response on a cache miss: every
\* exception of the fetch is caught and leaves the result None.
FetchResult(resp) ==
    IF resp.status # 200 THEN NoPage
    ELSE IF ~HTML_CONTENT_TYPE(resp.ctype) THEN NoPage
    ELSE IF resp.enc # "" /\ DecoderRaises(resp.enc) THEN NoPage
    ELSE Page(resp.links, resp.final)

\* The cache after a miss: keyed by the final URL for a Page, and always by the
\* requested URL.
CacheAfter(c, url, resp) ==
    LET r == FetchResult(resp)
        c1 == IF r.isPage
              THEN (resp.final :> r) @@ c
              ELSE c
    IN  (url :> r) @@ c1

(***************************************************************************)
(* Locator._update_version_data on a Distribution object of the heap.      *)
(***************************************************************************)
\* Metadata() with Name and Version set, wrapped in a Distribution.
NewDistribution(name, version) ==
    [name |-> name, version |-> version, md5_digest |-> None,
     requires_python |-> None, download_url |-> None]

\* The field updates of _update_version_data.
UpdatedDistribution(dist, info) ==
    [dist EXCEPT
        !.md5_digest = IF info.md5_digest # None THEN info.md5_digest ELSE @,
        !.requires_python = IF info.pyver # None THEN info.pyver ELSE @,
        !.download_url = info.url]

\* The queueing condition without the test of the URL of the page.
QueueConditionAnyPage(info, link, url) ==
    ~info.ok /\ _should_queue(link, url)

\* The condition under which _fetch puts a link on the queue.
QueueCondition(info, link, url) ==
    ~info.ok /\ _should_queue(link, url) /\ StartsWith(url, base_url)

(***************************************************************************)
(* The URL functions on the links of the modelled web, tabulated.          *)
(***************************************************************************)
InfoOf == [u \in LinkUniverse |-> convert_url_to_download_info(u, project_name)]

RaisesOf == [u \in LinkUniverse |-> urlparse(u).raises]

QueueOf == [l \in LinkUniverse, u \in LinkUniverse |-> QueueCondition(InfoOf[l], l, u)]

(***************************************************************************)
(* State.                                                                  *)
(***************************************************************************)
VARIABLES
    num_workers,  \* self.num_workers
    web,          \* the responses of the transport, fixed once a URL is fetched
    cache,        \* self._cache: URL -> Page or None
    seen,         \* self._seen
    queue,        \* self._to_fetch: its items, oldest first (None: a sentinel)
    unfinished,   \* self._to_fetch.unfinished_tasks
    result,       \* self.result: version -> Distribution (an index of heap)
    heap,         \* the Distribution objects created during the call
    mpc,          \* where the thread calling get_project is
    calls,        \* number of get_project calls that have returned
    pushed,       \* sentinels put by _wait_threads in this call
    returned,     \* what the last get_project returned
    prev,         \* what the get_project before it returned
    wpc,          \* where each worker thread is in _fetch
    wurl,         \* _fetch: url
    todo,         \* _fetch: the links of page.links not yet iterated, in order
    wlink,        \* _fetch: link
    wdist,        \* _update_version_data: dist
    wexc,         \* an exception is propagating out of the try block
    deq,          \* per worker: number of self._to_fetch.get() that returned
    ack,          \* per worker: number of self._to_fetch.task_done()
    taken,        \* per worker: number of sentinels dequeued
    enq,          \* per URL: number of self._to_fetch.put(url) in this call
    enqFrom,      \* the pairs <<link, url>> of the puts made by _fetch
    fetched,      \* per URL: number of get_page(url) calls in this call
    locators,     \* AggregatingLocator.locators: the kind of each locator
    merge,        \* AggregatingLocator.merge
    api,          \* the response of the server of each locator consulted
    apc,          \* where AggregatingLocator.get_project is
    ai,           \* get_project: the position of the loop over self.locators
    aresult,      \* get_project: result
    consulted,    \* the locators whose get_project was called, in order
    lret,         \* the outcome of get_project of each locator consulted
    lpc,          \* where the last call of locate is
    lversions,    \* locate: versions, what default_locator.get_project returned
    lorder,       \* locate: the order in which the keys of versions are iterated
    lvp,          \* locate: vp, by the outcome of vp.match for each version
    lresult,      \* locate: result
    pn,           \* number of get_page calls made directly on the locator
    pfirst,       \* per URL: what the first get_page(url) that returned gave
    plast,        \* the last get_page call: its url, outcome and what it did
    cpc,          \* whether convert_url_to_download_info has been applied
    cin,          \* the parts of the URL it is applied to, and project_name
    cout          \* what it returned

wvars == <<wpc, wurl, todo, wlink, wdist, wexc>>

ghost == <<deq, ack, taken, enq, enqFrom, fetched>>

\* The state of the scraping locator.
svars ==
    <<num_workers, web, cache, seen, queue, unfinished, result, heap, mpc, calls,
      pushed, returned, prev, wvars, ghost>>

\* The state of the aggregating locator and of the locators it consults.
avars == <<locators, merge, api, apc, ai, aresult, consulted, lret>>

\* The state of locate.
lvars == <<lpc, lversions, lorder, lvp, lresult>>

\* The record of the get_page calls made directly on the locator.
pvars == <<pn, pfirst, plast>>

\* An application of convert_url_to_download_info.
cvars == <<cpc, cin, cout>>

vars == <<svars, avars, lvars, pvars, cvars>>

Workers == 1..num_workers

EmptyMap == [x \in {} |-> x]

\* The content of a ProjectResult: version -> the fields of its Distribution.
ResultView == [v \in DOMAIN result |-> heap[result[v]]]

\* The states of a worker between a get() and its task_done().
Holding == {"fetch", "loop", "add", "update", "ack"}

\* An exception that ends the thread at once, as without the finally clause.
OnExceptionNoFinally == "dead"

\* Where a worker goes when an exception leaves the try block of _fetch: the
\* finally clause calls task_done.
OnException == "ack"

\* SimpleScrapingLocator(url, timeout, num_workers=n): nothing cached, seen,
\* queued or started.
ScrapingLocatorInit(n) ==
    /\ num_workers = n
    /\ web = EmptyMap
    /\ cache = EmptyMap
    /\ seen = {}
    /\ queue = <<>>
    /\ unfinished = 0
    /\ result = EmptyMap
    /\ heap = <<>>
    /\ mpc = "idle"
    /\ calls = 0
    /\ pushed = 0
    /\ returned = EmptyMap
    /\ prev = EmptyMap
    /\ wpc = [w \in Workers |-> "unstarted"]
    /\ wurl = [w \in Workers |-> None]
    /\ todo = [w \in Workers |-> <<>>]
    /\ wlink = [w \in Workers |-> None]
    /\ wdist = [w \in Workers |-> 0]
    /\ wexc = [w \in Workers |-> FALSE]
    /\ deq = [w \in Workers |-> 0]
    /\ ack = [w \in Workers |-> 0]
    /\ taken = [w \in Workers |-> 0]
    /\ enq = [u \in LinkUniverse |-> 0]
    /\ enqFrom = {}
    /\ fetched = [u \in LinkUniverse |-> 0]

\* No aggregating locator takes part.
NoAggregator ==
    /\ locators = <<>>
    /\ merge = FALSE
    /\ api = EmptyMap
    /\ apc = "off"
    /\ ai = 0
    /\ aresult = EmptyMap
    /\ consulted = <<>>
    /\ lret = EmptyMap

\* The result None of locate, as a record without a name and a version.
NoDistribution == NewDistribution(None, None)

\* locate has not been called.
NoLocate ==
    /\ lpc = "idle"
    /\ lversions = EmptyMap
    /\ lorder = <<>>
    /\ lvp = EmptyMap
    /\ lresult = NoDistribution

\* The record of a get_page call that has not been made.
NoCall == [url |-> None, outcome |-> NoPage, raised |-> FALSE,
           fetched |-> FALSE, again |-> FALSE, resp |-> NotFound(None)]

\* get_page has not been called directly.
NoPageCalls ==
    /\ pn = 0
    /\ pfirst = EmptyMap
    /\ plast = NoCall

\* The parts of a URL that convert_url_to_download_info is applied to.
UrlParts(dir, name, version, query, frag, project) ==
    [dir |-> dir, name |-> name, version |-> version, query |-> query,
     frag |-> frag, project |-> project]

\* convert_url_to_download_info is not under study.
NoConversion ==
    /\ cpc = "off"
    /\ cin = UrlParts("", "", "", "", "", "")
    /\ cout = NoInfo

\* A scraping locator with any number of workers, used on its own.
Init ==
    /\ \E n \in 1..MaxWorkers : ScrapingLocatorInit(n)
    /\ NoAggregator
    /\ NoLocate
    /\ NoPageCalls
    /\ NoConversion

(***************************************************************************)
(* SimpleScrapingLocator.get_project, _prepare_threads, _wait_threads      *)
(***************************************************************************)
\* self.result = {}, self._seen.clear(), _prepare_threads(): every thread
\* starts in _fetch, at the get().
Call ==
    /\ UNCHANGED <<avars, lvars, pvars, cvars>>
    /\ mpc = "idle"
    /\ calls < MaxCalls
    /\ result' = EmptyMap
    /\ heap' = <<>>
    /\ seen' = {}
    /\ wpc' = [w \in Workers |-> "get"]
    /\ wurl' = [w \in Workers |-> None]
    /\ todo' = [w \in Workers |-> <<>>]
    /\ wlink' = [w \in Workers |-> None]
    /\ wdist' = [w \in Workers |-> 0]
    /\ wexc' = [w \in Workers |-> FALSE]
    /\ deq' = [w \in Workers |-> 0]
    /\ ack' = [w \in Workers |-> 0]
    /\ taken' = [w \in Workers |-> 0]
    /\ enq' = [u \in LinkUniverse |-> 0]
    /\ enqFrom' = {}
    /\ fetched' = [u \in LinkUniverse |-> 0]
    /\ pushed' = 0
    /\ mpc' = "put"
    /\ UNCHANGED <<num_workers, web, cache, queue, unfinished, calls, returned, prev>>

\* self._to_fetch.put(url)
PutSeed ==
    /\ UNCHANGED <<avars, lvars, pvars, cvars>>
    /\ mpc = "put"
    /\ queue' = Append(queue, SeedUrl(project_name))
    /\ unfinished' = unfinished + 1
    /\ enq' = [enq EXCEPT ![SeedUrl(project_name)] = @ + 1]
    /\ mpc' = "join"
    /\ UNCHANGED <<num_workers, web, cache, seen, result, heap, calls, pushed,
                   returned, prev, wvars, deq, ack, taken, enqFrom, fetched>>

\* self._to_fetch.join() returns when no task is unfinished.
Join ==
    /\ UNCHANGED <<avars, lvars, pvars, cvars>>
    /\ mpc = "join"
    /\ unfinished = 0
    /\ mpc' = "sentinels"
    /\ UNCHANGED <<num_workers, web, cache, seen, queue, unfinished, result, heap,
                   calls, pushed, returned, prev, wvars, ghost>>

\* _wait_threads, first loop: one sentinel per thread of self._threads.
PushSentinel ==
    /\ UNCHANGED <<avars, lvars, pvars, cvars>>
    /\ mpc = "sentinels"
    /\ pushed < num_workers
    /\ queue' = Append(queue, None)
    /\ unfinished' = unfinished + 1
    /\ pushed' = pushed + 1
    /\ mpc' = IF pushed + 1 = num_workers THEN "jointhreads" ELSE "sentinels"
    /\ UNCHANGED <<num_workers, web, cache, seen, result, heap, calls,
                   returned, prev, wvars, ghost>>

\* _wait_threads, second loop: t.join() for every thread; then
\* del self.result and return result.
Return ==
    /\ UNCHANGED <<avars, lvars, pvars, cvars>>
    /\ mpc = "jointhreads"
    /\ \A w \in Workers : wpc[w] \in {"exited", "dead"}
    /\ returned' = ResultView
    /\ prev' = returned
    /\ calls' = calls + 1
    /\ mpc' = "idle"
    /\ UNCHANGED <<num_workers, web, cache, seen, queue, unfinished, result, heap,
                   pushed, wvars, ghost>>

(***************************************************************************)
(* SimpleScrapingLocator._fetch, one worker thread w.                      *)
(***************************************************************************)
\* url = self._to_fetch.get(): blocks while the queue is empty.
Get(w) ==
    /\ UNCHANGED <<avars, lvars, pvars, cvars>>
    /\ wpc[w] = "get"
    /\ queue # <<>>
    /\ queue' = Tail(queue)
    /\ wurl' = [wurl EXCEPT ![w] = Head(queue)]
    /\ deq' = [deq EXCEPT ![w] = @ + 1]
    /\ taken' = [taken EXCEPT ![w] = IF Head(queue) = None THEN @ + 1 ELSE @]
    /\ wpc' = [wpc EXCEPT ![w] = IF Head(queue) = None THEN "ack" ELSE "fetch"]
    /\ UNCHANGED <<num_workers, web, cache, seen, unfinished, result, heap, mpc,
                   calls, pushed, returned, prev, todo, wlink, wdist, wexc, ack,
                   enq, enqFrom, fetched>>

\* Where _fetch is after a step that ends an iteration of the loop over
\* page.links: at the next link, or past the loop, at the finally clause.
NextLink(links) == IF links = <<>> THEN "ack" ELSE "loop"

\* A continue that goes back to the get() without the call of task_done.
AfterPageSkipAck(w, r) ==
    /\ todo' = [todo EXCEPT ![w] = r.links]
    /\ wpc' = [wpc EXCEPT ![w] = IF r.isPage THEN NextLink(r.links) ELSE "get"]

\* Where _fetch goes with the value of get_page: None continues (to the
\* finally clause), a Page starts the loop over its links.
AfterPage(w, r) ==
    /\ todo' = [todo EXCEPT ![w] = r.links]
    /\ wpc' = [wpc EXCEPT ![w] = IF r.isPage THEN NextLink(r.links) ELSE "ack"]

\* page = self.get_page(url).  urlparse(url) is outside any try; a cached
\* outcome is returned as it is; on a miss the request is made and the
\* finally clause stores the outcome.
Fetch(w) ==
    /\ UNCHANGED <<avars, lvars, pvars, cvars>>
    /\ wpc[w] = "fetch"
    /\ fetched' = [fetched EXCEPT ![wurl[w]] = @ + 1]
    /\ IF RaisesOf[wurl[w]]
       THEN /\ wexc' = [wexc EXCEPT ![w] = TRUE]
            /\ wpc' = [wpc EXCEPT ![w] = OnException]
            /\ UNCHANGED <<todo, web, cache>>
       ELSE /\ wexc' = wexc
            /\ IF wurl[w] \in DOMAIN cache
               THEN /\ AfterPage(w, cache[wurl[w]])
                    /\ UNCHANGED <<web, cache>>
               ELSE \E resp \in (IF wurl[w] \in DOMAIN web
                                 THEN {web[wurl[w]]}
                                 ELSE Responses(wurl[w])) :
                        /\ web' = (wurl[w] :> resp) @@ web
                        /\ cache' = CacheAfter(cache, wurl[w], resp)
                        /\ AfterPage(w, FetchResult(resp))
    /\ UNCHANGED <<num_workers, seen, queue, unfinished, result, heap,
                   mpc, calls, pushed, returned, prev, wurl, wlink, wdist, deq, ack,
                   taken, enq, enqFrom>>

\* for link in page.links: if link not in self._seen
Loop(w) ==
    /\ UNCHANGED <<avars, lvars, pvars, cvars>>
    /\ wpc[w] = "loop"
    /\ todo' = [todo EXCEPT ![w] = Tail(@)]
    /\ IF Head(todo[w]) \in seen
       THEN /\ wpc' = [wpc EXCEPT ![w] = NextLink(Tail(todo[w]))]
            /\ wlink' = wlink
       ELSE /\ wlink' = [wlink EXCEPT ![w] = Head(todo[w])]
            /\ wpc' = [wpc EXCEPT ![w] = "add"]
    /\ UNCHANGED <<num_workers, web, cache, seen, queue, unfinished, result, heap,
                   mpc, calls, pushed, returned, prev, wurl, wdist, wexc, ghost>>

\* self._to_fetch.put(link) by worker w
PutLink(w) ==
    /\ queue' = Append(queue, wlink[w])
    /\ unfinished' = unfinished + 1
    /\ enq' = [enq EXCEPT ![wlink[w]] = @ + 1]
    /\ enqFrom' = enqFrom \cup {<<wlink[w], wurl[w]>>}

\* self._seen.add(link), then _process_download(link): the parse of the link
\* and, for a download, the start of _update_version_data (the lookup of the
\* version in the result); for any other link the queueing decision and the
\* put.
Download(w) ==
    /\ UNCHANGED <<avars, lvars, pvars, cvars>>
    /\ wpc[w] = "add"
    /\ seen' = seen \cup {wlink[w]}
    /\ LET info == InfoOf[wlink[w]]
       IN  IF RaisesOf[wlink[w]]
           THEN /\ wexc' = [wexc EXCEPT ![w] = TRUE]
                /\ wpc' = [wpc EXCEPT ![w] = OnException]
                /\ UNCHANGED <<queue, unfinished, enq, enqFrom, heap, wdist>>
           ELSE IF info.ok
           THEN /\ IF info.version \in DOMAIN result
                   THEN /\ wdist' = [wdist EXCEPT ![w] = result[info.version]]
                        /\ heap' = heap
                   ELSE /\ wdist' = [wdist EXCEPT ![w] = Len(heap) + 1]
                        /\ heap' = Append(heap, NewDistribution(info.name, info.version))
                /\ wpc' = [wpc EXCEPT ![w] = "update"]
                /\ UNCHANGED <<queue, unfinished, enq, enqFrom, wexc>>
           ELSE /\ IF QueueOf[wlink[w], wurl[w]]
                   THEN PutLink(w)
                   ELSE UNCHANGED <<queue, unfinished, enq, enqFrom>>
                /\ wpc' = [wpc EXCEPT ![w] = NextLink(todo[w])]
                /\ UNCHANGED <<heap, wdist, wexc>>
    /\ UNCHANGED <<num_workers, web, cache, result, mpc, calls, pushed,
                   returned, prev, wurl, todo, wlink, deq, ack, taken, fetched>>

\* _update_version_data without its last statement, result[version] = dist.
UpdateNoStore(w) ==
    /\ UNCHANGED <<avars, lvars, pvars, cvars>>
    /\ wpc[w] = "update"
    /\ heap' = [heap EXCEPT ![wdist[w]] = UpdatedDistribution(@, InfoOf[wlink[w]])]
    /\ result' = result
    /\ wpc' = [wpc EXCEPT ![w] = NextLink(todo[w])]
    /\ UNCHANGED <<num_workers, web, cache, seen, queue, unfinished, mpc, calls,
                   pushed, returned, prev, wurl, todo, wlink, wdist, wexc, ghost>>

\* _update_version_data, from the field updates to result[version] = dist
Update(w) ==
    /\ UNCHANGED <<avars, lvars, pvars, cvars>>
    /\ wpc[w] = "update"
    /\ LET info == InfoOf[wlink[w]]
       IN  /\ heap' = [heap EXCEPT ![wdist[w]] = UpdatedDistribution(@, info)]
           /\ result' = (info.version :> wdist[w]) @@ result
    /\ wpc' = [wpc EXCEPT ![w] = NextLink(todo[w])]
    /\ UNCHANGED <<num_workers, web, cache, seen, queue, unfinished, mpc, calls,
                   pushed, returned, prev, wurl, todo, wlink, wdist, wexc, ghost>>

\* task_done followed by a break whatever the item was.
AckAlwaysBreak(w) ==
    /\ UNCHANGED <<avars, lvars, pvars, cvars>>
    /\ wpc[w] = "ack"
    /\ unfinished' = unfinished - 1
    /\ ack' = [ack EXCEPT ![w] = @ + 1]
    /\ wpc' = [wpc EXCEPT ![w] = IF wexc[w] THEN "dead" ELSE "exited"]
    /\ UNCHANGED <<num_workers, web, cache, seen, queue, result, heap, mpc, calls,
                   pushed, returned, prev, wurl, todo, wlink, wdist, wexc, deq,
                   taken, enq, enqFrom, fetched>>

\* finally: self._to_fetch.task_done(); then the exception ends the thread,
\* a sentinel breaks the loop, anything else goes back to the get().
Ack(w) ==
    /\ UNCHANGED <<avars, lvars, pvars, cvars>>
    /\ wpc[w] = "ack"
    /\ unfinished' = unfinished - 1
    /\ ack' = [ack EXCEPT ![w] = @ + 1]
    /\ wpc' = [wpc EXCEPT ![w] = IF wexc[w] THEN "dead"
                                 ELSE IF wurl[w] = None THEN "exited"
                                 ELSE "get"]
    /\ UNCHANGED <<num_workers, web, cache, seen, queue, result, heap, mpc, calls,
                   pushed, returned, prev, wurl, todo, wlink, wdist, wexc, deq,
                   taken, enq, enqFrom, fetched>>

Next ==
    \/ Call
    \/ PutSeed
    \/ Join
    \/ PushSentinel
    \/ Return
    \/ \E w \in Workers : Get(w)
    \/ \E w \in Workers : Fetch(w)
    \/ \E w \in Workers : Loop(w)
    \/ \E w \in Workers : Download(w)
    \/ \E w \in Workers : Update(w)
    \/ \E w \in Workers : Ack(w)

Spec == Init /\ [][Next]_vars

\* The steps of the thread that called get_project.
MainStep == PutSeed \/ Join \/ PushSentinel \/ Return

\* The steps of worker thread w.
WorkerStep(w) ==
    /\ w \in Workers
    /\ (Get(w) \/ Fetch(w) \/ Loop(w) \/ Download(w) \/ Update(w) \/ Ack(w))

\* Fair scheduling: a thread that can run is eventually run.  Whether
\* get_project is called again is left to the caller.
FairSpec ==
    /\ Spec
    /\ WF_vars(MainStep)
    /\ \A w \in 1..MaxWorkers : WF_vars(WorkerStep(w))

(***************************************************************************)
(* The API-backed locators: PyPIJSONLocator and PyPIRPCLocator.            *)
(***************************************************************************)
\* The versions a server knows of the project.
ApiVersions == {"1.0", "2.0"}

\* The URL that the server of locator i gives for version v.
ApiUrl(i, v) == "http://api" \o ToString(i) \o ".example/foo-" \o v \o ".zip"

\* An entry of d['urls'] and of release_urls(name, v); md5_digest may be absent.
UrlInfos(i, v) == {[url |-> ApiUrl(i, v), md5_digest |-> m] : m \in {None, "ab"}}

\* Distribution(metadata) with Download-URL and md5_digest taken from info.
ApiDistribution(version, info) ==
    [name |-> project_name, version |-> version, md5_digest |-> info.md5_digest,
     requires_python |-> None, download_url |-> info.url]

\* What the JSON server of locator i may answer: urlopen raises ("urlerror"),
\* the body is not JSON ("malformed"), the document lacks a key ("nokey"),
\* or it is a document with the version of info and the list urls.
JsonResponses(i) ==
    {[status |-> st, version |-> None, urls |-> <<>>] :
        st \in {"urlerror", "malformed", "nokey"}}
    \cup {[status |-> "ok", version |-> v, urls |-> <<>>] : v \in ApiVersions}
    \cup UNION {{[status |-> "ok", version |-> v, urls |-> <<info>>] :
                    info \in UrlInfos(i, v)} : v \in ApiVersions}

\* The outcome of a get_project: it raised, or it returned result.
Returns(r) == [raised |-> FALSE, result |-> r]

Raises == [raised |-> TRUE, result |-> EmptyMap]

\* PyPIJSONLocator.get_project: every exception of the try block is caught
\* and logged, and the result, still empty, is returned.
JsonGetProject(resp) ==
    IF resp.status # "ok" THEN Returns(EmptyMap)
    ELSE IF resp.urls = <<>> THEN Returns(EmptyMap)
    ELSE Returns(resp.version :> ApiDistribution(resp.version, resp.urls[1]))

\* What the RPC server of locator i may answer: the remote call named by
\* fault fails; package_releases returns versions; release_urls returns an
\* entry for the versions of hosted and an empty list for the others.
RpcResponses(i) ==
    {[fault |-> f, versions |-> vs, hosted |-> h, md5_digest |-> m] :
        f \in {"none", "package_releases", "release_urls", "release_data"},
        vs \in {<<>>, <<"1.0">>, <<"1.0", "2.0">>},
        h \in {{}, {"1.0"}, ApiVersions},
        m \in {None, "ab"}}

\* PyPIRPCLocator.get_project: no remote call is inside a try block.
RpcGetProject(resp, i) ==
    IF resp.fault = "package_releases" THEN Raises
    ELSE IF resp.fault # "none" /\ resp.versions # <<>> THEN Raises
    ELSE Returns([v \in {resp.versions[k] : k \in DOMAIN resp.versions} \cap resp.hosted |->
                    ApiDistribution(v, [url |-> ApiUrl(i, v),
                                        md5_digest |-> resp.md5_digest])])

(***************************************************************************)
(* AggregatingLocator                                                      *)
(***************************************************************************)
\* AggregatingLocator(*locators, merge=...) over API-backed locators; the
\* scraping locator of the module is constructed and not used.
AggInit ==
    /\ ScrapingLocatorInit(1)
    /\ locators \in UNION {[1..n -> {"json", "rpc"}] : n \in 1..MaxLocators}
    /\ merge \in BOOLEAN
    /\ api = EmptyMap
    /\ apc = "idle"
    /\ ai = 0
    /\ aresult = EmptyMap
    /\ consulted = <<>>
    /\ lret = EmptyMap
    /\ NoLocate
    /\ NoPageCalls
    /\ NoConversion

\* get_project: result = {}, and the loop starts at the first locator.
AggCall ==
    /\ apc = "idle"
    /\ apc' = "loop"
    /\ ai' = 1
    /\ aresult' = EmptyMap
    /\ UNCHANGED <<locators, merge, api, consulted, lret, svars, lvars, pvars, cvars>>

\* The loop body without the break of first-hit mode.
AggIterationNoBreak(resp, r) ==
    /\ api' = (ai :> resp) @@ api
    /\ lret' = (ai :> r) @@ lret
    /\ consulted' = Append(consulted, ai)
    /\ IF r.raised
       THEN /\ apc' = "raised"
            /\ UNCHANGED <<ai, aresult>>
       ELSE /\ aresult' = IF r.result = EmptyMap THEN aresult
                          ELSE IF merge THEN r.result @@ aresult
                          ELSE r.result
            /\ ai' = ai + 1
            /\ apc' = apc
    /\ UNCHANGED <<locators, merge, svars, lvars, pvars, cvars>>

\* The loop body with a merge that keeps the entry the result already has.
AggIterationKeepFirst(resp, r) ==
    /\ api' = (ai :> resp) @@ api
    /\ lret' = (ai :> r) @@ lret
    /\ consulted' = Append(consulted, ai)
    /\ IF r.raised
       THEN /\ apc' = "raised"
            /\ UNCHANGED <<ai, aresult>>
       ELSE IF r.result # EmptyMap /\ ~merge
       THEN /\ aresult' = r.result
            /\ apc' = "break"
            /\ ai' = ai
       ELSE /\ aresult' = aresult @@ r.result
            /\ ai' = ai + 1
            /\ apc' = apc
    /\ UNCHANGED <<locators, merge, svars, lvars, pvars, cvars>>

\* One iteration of the loop, given the outcome r of locator.get_project(name)
\* for the response resp: an exception leaves get_project; a non-empty r is
\* merged into the result, or replaces it and ends the loop.
AggIteration(resp, r) ==
    /\ api' = (ai :> resp) @@ api
    /\ lret' = (ai :> r) @@ lret
    /\ consulted' = Append(consulted, ai)
    /\ IF r.raised
       THEN /\ apc' = "raised"
            /\ UNCHANGED <<ai, aresult>>
       ELSE IF r.result # EmptyMap
       THEN IF merge
            THEN /\ aresult' = r.result @@ aresult
                 /\ ai' = ai + 1
                 /\ apc' = apc
            ELSE /\ aresult' = r.result
                 /\ apc' = "break"
                 /\ ai' = ai
       ELSE /\ ai' = ai + 1
            /\ UNCHANGED <<apc, aresult>>
    /\ UNCHANGED <<locators, merge, svars, lvars, pvars, cvars>>

\* The iteration for a PyPIJSONLocator.
ConsultJson ==
    /\ apc = "loop"
    /\ ai <= Len(locators)
    /\ locators[ai] = "json"
    /\ \E resp \in JsonResponses(ai) : AggIteration(resp, JsonGetProject(resp))

\* The iteration for a PyPIRPCLocator.
ConsultRpc ==
    /\ apc = "loop"
    /\ ai <= Len(locators)
    /\ locators[ai] = "rpc"
    /\ \E resp \in RpcResponses(ai) : AggIteration(resp, RpcGetProject(resp, ai))

\* return result, after the last locator or after break.
AggReturn ==
    /\ \/ apc = "break"
       \/ apc = "loop" /\ ai > Len(locators)
    /\ apc' = "returned"
    /\ UNCHANGED <<locators, merge, api, ai, aresult, consulted, lret, svars, lvars, pvars, cvars>>

AggNext == AggCall \/ ConsultJson \/ ConsultRpc \/ AggReturn

SpecAgg == AggInit /\ [][AggNext]_vars

(***************************************************************************)
(* locate, with the version predicate and the ordering key of             *)
(* distlib.version as the specification describes them.                    *)
(***************************************************************************)
\* The version keys a project result may have.
LocateVersions == {"bogus", "1.0", "2.0", "10.0"}

\* orderKey(version): a total order on versions, here by position.
legacy_version_key(v) ==
    CASE v = "bogus" -> 0
      [] v = "1.0" -> 1
      [] v = "2.0" -> 2
      [] v = "10.0" -> 3

\* matches(constraint, version): true, false, or an error.
MatchOutcomes == {"true", "false", "raises"}

\* The version predicates, each by what its match does for every version.
VersionPredicates == [LocateVersions -> MatchOutcomes]

\* The project results: version -> Distribution.
ProjectResults ==
    {[v \in V |-> NewDistribution(project_name, v)] : V \in SUBSET LocateVersions}

\* The orders in which the keys of a dict can be iterated.
IterationOrders(d) ==
    {o \in [1..Cardinality(DOMAIN d) -> DOMAIN d] :
        \A i, j \in DOMAIN o : i # j => o[i] # o[j]}

\* The loop of locate over versions: slist gets the keys for which vp.match
\* is true; a key for which it raises is passed over.
RECURSIVE MatchingKeys(_, _)
MatchingKeys(order, vp) ==
    IF order = <<>> THEN <<>>
    ELSE IF vp[Head(order)] = "true"
         THEN <<Head(order)>> \o MatchingKeys(Tail(order), vp)
         ELSE MatchingKeys(Tail(order), vp)

\* The place of k in a list sorted by key: after the elements whose key is
\* not greater (sorted is stable).
RECURSIVE InsertByKey(_, _)
InsertByKey(sorted, k) ==
    IF sorted = <<>> THEN <<k>>
    ELSE IF legacy_version_key(Head(sorted)) <= legacy_version_key(k)
         THEN <<Head(sorted)>> \o InsertByKey(Tail(sorted), k)
         ELSE <<k>> \o sorted

\* A list left in the order it has.
Unsorted(slist) == slist

\* sorted(slist, key=legacy_version_key)
RECURSIVE SortedByKey(_)
SortedByKey(slist) ==
    IF slist = <<>> THEN <<>>
    ELSE InsertByKey(SortedByKey(SubSeq(slist, 1, Len(slist) - 1)),
                     slist[Len(slist)])

\* The value locate returns for the project result versions, iterated in
\* order, and the predicate vp.
LocateResult(versions, order, vp) ==
    IF DOMAIN versions = {} THEN NoDistribution
    ELSE LET slist == MatchingKeys(order, vp)
             s2 == IF Len(slist) > 1 THEN SortedByKey(slist) ELSE slist
         IN  IF s2 # <<>> THEN versions[s2[Len(s2)]] ELSE NoDistribution

\* locate(predicate): the whole call, for what default_locator.get_project
\* returns and for the predicate.  locate keeps no state of its own between
\* calls, so one call is followed.
Locate ==
    /\ lpc = "idle"
    /\ \E versions \in ProjectResults, vp \in VersionPredicates :
        \E order \in IterationOrders(versions) :
            /\ lversions' = versions
            /\ lorder' = order
            /\ lvp' = vp
            /\ lresult' = LocateResult(versions, order, vp)
    /\ lpc' = "done"
    /\ UNCHANGED <<svars, avars, pvars, cvars>>

LocateInit ==
    /\ ScrapingLocatorInit(1)
    /\ NoAggregator
    /\ NoLocate
    /\ NoPageCalls
    /\ NoConversion

SpecLocate == LocateInit /\ [][Locate]_vars

(***************************************************************************)
(* SimpleScrapingLocator.get_page, called directly, against a transport    *)
(* whose answer for a URL may differ from one request to the next.         *)
(***************************************************************************)
\* The URLs get_page is called with.
PageUrls == {"http://a.example/", "http://b.example/", "http://[bad/"}

\* The URLs a response can come from (resp.geturl(), after redirects).
FinalUrls == {"http://a.example/", "http://b.example/"}

\* What the transport may answer to a request for u: URLError (status 0), an
\* HTTPError (404, 500), a document that is not HTML, or an HTML document
\* with or without a Content-Encoding, served from u or after a redirect.
PageResponses(u) ==
    {[status |-> st, ctype |-> "", enc |-> "", final |-> u, links |-> <<>>] :
        st \in {0, 404, 500}}
    \cup {[status |-> 200, ctype |-> "application/pdf", enc |-> "", final |-> u,
           links |-> <<>>]}
    \cup {[status |-> 200, ctype |-> "text/html", enc |-> e, final |-> f, links |-> L] :
            e \in {"", "gzip", "deflate", "br"},
            f \in FinalUrls,
            L \in {<<>>, <<"http://a.example/">>}}

\* The record of one get_page call.
PageCall(url, outcome, raised, requested, resp) ==
    [url |-> url, outcome |-> outcome, raised |-> raised, fetched |-> requested,
     again |-> url \in DOMAIN pfirst, resp |-> resp]

\* pfirst after get_page(url) has returned outcome.
FirstAfter(url, outcome) ==
    IF url \in DOMAIN pfirst THEN pfirst ELSE (url :> outcome) @@ pfirst

\* get_page(url): urlparse(url) is outside the try statement; a cached
\* outcome is returned as it is; otherwise the request is made, every
\* exception of it is caught, and the finally clause stores the outcome.
GetPage(url) ==
    /\ pn < MaxPageCalls
    /\ pn' = pn + 1
    /\ IF urlparse(url).raises
       THEN /\ plast' = PageCall(url, NoPage, TRUE, FALSE, NotFound(None))
            /\ UNCHANGED <<cache, pfirst>>
       ELSE IF url \in DOMAIN cache
       THEN /\ plast' = PageCall(url, cache[url], FALSE, FALSE, NotFound(None))
            /\ pfirst' = FirstAfter(url, cache[url])
            /\ cache' = cache
       ELSE \E resp \in PageResponses(url) :
            /\ cache' = CacheAfter(cache, url, resp)
            /\ plast' = PageCall(url, FetchResult(resp), FALSE, TRUE, resp)
            /\ pfirst' = FirstAfter(url, FetchResult(resp))
    /\ UNCHANGED <<num_workers, web, seen, queue, unfinished, result, heap, mpc,
                   calls, pushed, returned, prev, wvars, ghost, avars, lvars, cvars>>

PageInit ==
    /\ ScrapingLocatorInit(1)
    /\ NoAggregator
    /\ NoLocate
    /\ NoPageCalls
    /\ NoConversion

PageNext == \E url \in PageUrls : GetPage(url)

SpecPage == PageInit /\ [][PageNext]_vars

(***************************************************************************)
(* Locator.convert_url_to_download_info, applied to archive URLs.          *)
(***************************************************************************)
\* Project names, each in [a-z0-9_.-]+.
ArchiveNames == {"foo", "foo-bar", "a.b_c"}

\* Versions, each starting with a digit.
ArchiveVersions == {"1.0", "2", "1.0a1"}

\* The URLs of the form .../<name>-<version>.tar.gz, with or without a
\* directory, a query and a fragment, each with the project name that
\* convert_url_to_download_info is given: none, or the name.
ArchiveInputs ==
    UNION {{UrlParts(d, n, v, q, f, pr) :
                d \in {"", "packages/"}, v \in ArchiveVersions,
                q \in {"", "?x=1"}, f \in {"", "#md5=ab"}, pr \in {"", n}} :
            n \in ArchiveNames}

\* The URL made of the parts.
ArchiveUrl(parts) ==
    "http://pypi.python.org/" \o parts.dir \o parts.name \o "-" \o parts.version
        \o ".tar.gz" \o parts.query \o parts.frag

ParseInit ==
    /\ ScrapingLocatorInit(1)
    /\ NoAggregator
    /\ NoLocate
    /\ NoPageCalls
    /\ cpc = "input"
    /\ cin \in ArchiveInputs
    /\ cout = NoInfo

\* info = convert_url_to_download_info(url, project_name)
Convert ==
    /\ cpc = "input"
    /\ cpc' = "done"
    /\ cout' = convert_url_to_download_info(ArchiveUrl(cin), cin.project)
    /\ UNCHANGED <<cin, svars, avars, lvars, pvars>>

SpecParse == ParseInit /\ [][Convert]_vars

(***************************************************************************)
(* Properties of the crawler engine.                                       *)
(***************************************************************************)
Seed == SeedUrl(project_name)

\* A get_project call has returned and no other has started.
Returned == mpc = "idle" /\ calls > 0

\* C1: get_project terminates: under fair scheduling, a call that has put the
\* seed URL on the queue eventually returns.
C1_GetProjectTerminates == (mpc = "join") ~> (mpc = "idle")

\* C2: the ProjectResult is the same for every worker scheduling: a second
\* get_project over the same link graph returns what the first returned.
C2_SameResultEveryRun == (Returned /\ calls >= 2) => returned = prev

\* C3: every dequeue is followed by exactly one task_done: a worker that holds
\* no item has acknowledged each of its dequeues once, a worker that holds an
\* item has acknowledged all but that one.
C3_AckEveryDequeue ==
    \A w \in Workers :
        ack[w] = deq[w] - (IF wpc[w] \in Holding THEN 1 ELSE 0)

\* C3, witness: an exception has ended a worker, which has acknowledged the
\* item it was processing.
C3_Witness == \E w \in Workers : wpc[w] = "dead" /\ deq[w] > 0 /\ ack[w] = deq[w]

\* C4: a failure while processing a dequeued URL never ends the worker.
C4_WorkerSurvivesFailure == \A w \in Workers : wpc[w] # "dead"

\* C5: only a link whose own URL starts with the base URL is put on the queue
\* or fetched.
C5_OnlyBaseLinksQueued ==
    \A u \in LinkUniverse :
        (enq[u] > 0 \/ fetched[u] > 0) => StartsWith(u, base_url)

\* C5, amended: a worker puts a link on the queue only when the URL of the
\* page on which it found the link starts with the base URL, and every URL
\* fetched is the seed or such a link.
C5_OnlyLinksOfBasePagesQueued ==
    /\ \A e \in enqFrom : StartsWith(e[2], base_url)
    /\ \A u \in LinkUniverse :
        fetched[u] > 0 => (u = Seed \/ \E e \in enqFrom : e[1] = u)

\* C5, witness: a link outside the base URL was queued from the seed page and
\* fetched; its page links to the seed, which no worker put on the queue.
C5_Witness ==
    /\ Returned
    /\ \E u \in LinkUniverse :
        /\ ~StartsWith(u, base_url)
        /\ <<u, Seed>> \in enqFrom
        /\ fetched[u] > 0
        /\ u \in DOMAIN cache
        /\ cache[u].isPage
        /\ cache[u].links = <<Seed>>
        /\ Seed \in seen
        /\ enq[Seed] = 1

\* C6: no URL is put on the work queue more than once during one call.
C6_NoDuplicateEnqueue == \A u \in LinkUniverse : enq[u] <= 1

\* C7: the shutdown protocol: sentinels are pushed only after the drain wait;
\* when get_project has returned, one sentinel per worker was pushed, every
\* worker has dequeued exactly one sentinel and exited, the queue is empty
\* with no unfinished task, and the result is what was returned.
C7_ShutdownProtocol ==
    /\ pushed > 0 => mpc \in {"sentinels", "jointhreads", "idle"}
    /\ Returned =>
        /\ pushed = num_workers
        /\ \A w \in Workers : wpc[w] = "exited" /\ taken[w] = 1
        /\ queue = <<>>
        /\ unfinished = 0
        /\ ResultView = returned

\* The links that the filename parser accepts as a distribution of the project.
Downloads == {l \in LinkUniverse : ~RaisesOf[l] /\ InfoOf[l].ok}

\* The number of get_page calls of this get_project call.
RECURSIVE SumOver(_, _)
SumOver(f, S) ==
    IF S = {} THEN 0
    ELSE LET x == CHOOSE x \in S : TRUE IN f[x] + SumOver(f, S \ {x})

\* C8: a link accepted as a distribution is never queued and never fetched,
\* and once a worker has processed it the result holds its version; a seed
\* page whose only link is such an archive gives one entry and one fetch.
C8_DownloadsFoldedNotQueued ==
    /\ \A l \in Downloads :
        /\ enq[l] = 0
        /\ fetched[l] = 0
        /\ (l \in seen /\ ~(\E w \in Workers : wpc[w] = "update" /\ wlink[w] = l))
            => InfoOf[l].version \in DOMAIN result
    /\ \A l \in Downloads :
        (Returned /\ Seed \in DOMAIN cache /\ cache[Seed].links = <<l>>)
            => /\ Cardinality(DOMAIN returned) = 1
               /\ SumOver(fetched, LinkUniverse) = 1
               /\ fetched[Seed] = 1

\* C8, witness: the seed page had one link, an archive of the project, and
\* get_project returned its version.
C8_Witness ==
    /\ Returned
    /\ Seed \in DOMAIN cache
    /\ \E l \in Downloads :
        /\ cache[Seed].links = <<l>>
        /\ DOMAIN returned = {InfoOf[l].version}

\* The links of the modelled web whose host is localhost.
LocalhostLinks == {"http://localhost/dl/foo-1.0.zip", "http://LocalHost:8080/simple/"}

\* C9: a link whose host is localhost is never queued and never fetched.
C9_LocalhostNeverQueued ==
    \A l \in LocalhostLinks \cap LinkUniverse : enq[l] = 0 /\ fetched[l] = 0

\* C9, witness: workers have processed both localhost links; neither was
\* queued, and the archive on localhost is the download URL of its version.
C9_Witness ==
    /\ Returned
    /\ LocalhostLinks \subseteq seen
    /\ \E v \in DOMAIN returned :
        returned[v].download_url = "http://localhost/dl/foo-1.0.zip"

(***************************************************************************)
(* Properties of the API-backed and aggregating locators.                  *)
(***************************************************************************)
\* The server of a locator failed: a network or remote-call error, or a
\* malformed response.
ApiFailed(i) ==
    IF locators[i] = "json" THEN api[i].status # "ok"
    ELSE api[i].fault = "package_releases"
         \/ (api[i].fault # "none" /\ api[i].versions # <<>>)

\* C10: a failure of an API-backed locator is caught inside its get_project,
\* which returns an empty result, and the aggregating get_project does not
\* abort: it goes on to the following locator, or returns after the last.
C10_ApiFailureContained ==
    /\ apc # "raised"
    /\ \A i \in DOMAIN lret :
        ApiFailed(i) =>
            /\ lret[i] = Returns(EmptyMap)
            /\ i < Len(locators) =>
                (apc = "loop" /\ ai = i + 1) \/ (i + 1) \in DOMAIN lret

\* The locators consulted so far whose get_project returned a non-empty result.
Hits == {i \in DOMAIN lret : ~lret[i].raised /\ lret[i].result # EmptyMap}

\* The locators are consulted in the configured order, none of them twice.
ConsultedInOrder ==
    /\ Len(consulted) <= Len(locators)
    /\ \A k \in DOMAIN consulted : consulted[k] = k
    /\ DOMAIN lret = DOMAIN consulted

\* C11: in first-hit mode the locators are consulted in the configured order
\* and none is consulted after one that returned a non-empty result; what is
\* returned is the result of that locator, and an empty result is returned
\* only when every configured locator was consulted and returned empty.
C11_FirstHit ==
    ~merge =>
        /\ ConsultedInOrder
        /\ \A i \in Hits : i = Len(consulted)
        /\ apc = "returned" =>
            IF Hits # {}
            THEN \A i \in Hits : aresult = lret[i].result
            ELSE /\ aresult = EmptyMap
                 /\ Len(consulted) = Len(locators)
                 /\ \A i \in DOMAIN lret : lret[i] = Returns(EmptyMap)

\* C11, witness: the first of two locators returned a non-empty result, which
\* get_project returned without consulting the second.
C11_Witness ==
    /\ ~merge
    /\ apc = "returned"
    /\ Len(locators) = 2
    /\ consulted = <<1>>
    /\ aresult # EmptyMap
    /\ aresult = lret[1].result

\* The last locator, in the configured order, whose result has version v.
LastWith(v) ==
    CHOOSE i \in Hits :
        /\ v \in DOMAIN lret[i].result
        /\ \A j \in Hits : v \in DOMAIN lret[j].result => j <= i

\* C12: in merge mode a get_project that returns has consulted every
\* configured locator; its result has the version keys of all their results,
\* and for each key the entry of the last locator that returned that key.
C12_MergeLaterWins ==
    (merge /\ apc = "returned") =>
        /\ ConsultedInOrder
        /\ Len(consulted) = Len(locators)
        /\ DOMAIN aresult = UNION {DOMAIN lret[i].result : i \in DOMAIN lret}
        /\ \A v \in DOMAIN aresult : aresult[v] = lret[LastWith(v)].result[v]

\* C12, witness: two locators returned different entries for the same
\* version, and the merged result holds the entry of the second, next to a
\* version that only the first returned.
C12_Witness ==
    /\ merge
    /\ apc = "returned"
    /\ Len(locators) = 2
    /\ \E v \in ApiVersions :
        /\ v \in DOMAIN lret[1].result
        /\ v \in DOMAIN lret[2].result
        /\ lret[1].result[v] # lret[2].result[v]
        /\ aresult[v] = lret[2].result[v]
    /\ \E v \in DOMAIN lret[1].result : v \notin DOMAIN lret[2].result

(***************************************************************************)
(* Properties of locate.                                                   *)
(***************************************************************************)
\* The versions of the project for which the match of the predicate is true.
Satisfying == {v \in DOMAIN lversions : lvp[v] = "true"}

\* C13: locate returns the record of the version with the greatest ordering
\* key among the versions that satisfy the predicate, a version whose match
\* raises counting as not satisfying it, and none when no version does.
C13_LocateGreatestMatching ==
    lpc = "done" =>
        IF Satisfying = {}
        THEN lresult = NoDistribution
        ELSE \E v \in Satisfying :
                /\ \A u \in Satisfying : legacy_version_key(u) <= legacy_version_key(v)
                /\ lresult = lversions[v]

\* C13, witness: the match raised for one version and was true for 2.0 and
\* for 10.0, which was iterated before 2.0; locate returned the record of 10.0.
C13_Witness ==
    /\ lpc = "done"
    /\ DOMAIN lversions = LocateVersions
    /\ lvp["bogus"] = "raises"
    /\ lvp["1.0"] = "false"
    /\ Satisfying = {"2.0", "10.0"}
    /\ lorder = <<"bogus", "10.0", "1.0", "2.0">>
    /\ lresult = lversions["10.0"]

(***************************************************************************)
(* Properties of get_page.                                                 *)
(***************************************************************************)
\* C14: get_page never raises; the cache holds, under the requested URL, the
\* outcome that the first get_page of that URL returned; a later get_page of
\* the URL makes no request and returns that outcome.
C14_GetPageIdempotent ==
    /\ ~plast.raised
    /\ \A u \in DOMAIN pfirst : u \in DOMAIN cache /\ cache[u] = pfirst[u]
    /\ plast.again => (~plast.fetched /\ plast.outcome = pfirst[plast.url])

\* C19: for an HTML response whose Content-Encoding is gzip or deflate,
\* get_page returns the Page of the decoded body; a fetched HTML response
\* yields none only when its Content-Encoding is neither gzip nor deflate.
C19_EncodedBodyDecoded ==
    (plast.fetched /\ plast.resp.status = 200 /\ HTML_CONTENT_TYPE(plast.resp.ctype)) =>
        /\ plast.resp.enc \in {"gzip", "deflate"} =>
            plast.outcome = Page(plast.resp.links, plast.resp.final)
        /\ ~plast.outcome.isPage => plast.resp.enc \notin {"", "gzip", "deflate"}

(***************************************************************************)
(* Properties of the filename parser.                                      *)
(***************************************************************************)
\* C15: for a URL whose path ends in <name>-<version>.tar.gz,
\* convert_url_to_download_info returns a record with that name and that
\* version, and a URL that has neither the query nor the fragment.
C15_ArchiveNameVersionUrl ==
    cpc = "done" =>
        /\ cout.ok
        /\ cout.name = cin.name
        /\ cout.version = cin.version
        /\ Find(cout.url, "?") = 0
        /\ Find(cout.url, "#") = 0

(***************************************************************************)
(* Further properties of the crawler engine.                               *)
(***************************************************************************)
\* The download links that a worker has processed to the end.
Processed ==
    {l \in Downloads :
        l \in seen /\ ~(\E w \in Workers : wpc[w] = "update" /\ wlink[w] = l)}

\* C16: during one get_project a single Distribution is created for each
\* version, and a checksum that a worker has recorded for a version is in
\* the record that the result holds for that version.
C16_OneRecordPerVersion ==
    /\ \A i, j \in DOMAIN heap : heap[i].version = heap[j].version => i = j
    /\ \A l \in Processed :
        InfoOf[l].md5_digest # None =>
            /\ InfoOf[l].version \in DOMAIN result
            /\ heap[result[InfoOf[l].version]].md5_digest = InfoOf[l].md5_digest

\* The workers that have dequeued an item and not yet acknowledged it.
Busy == {w \in Workers : wpc[w] \in Holding}

\* C17: the count of unfinished tasks is the number of queued items plus the
\* number of items dequeued and not yet acknowledged; when it is zero the
\* queue is empty and no worker is processing an item.
C17_UnfinishedIsAccurate ==
    /\ unfinished = Len(queue) + Cardinality(Busy)
    /\ unfinished = 0 => (queue = <<>> /\ Busy = {})

\* C17, witness: the drain wait can return after a worker has queued a link
\* of the seed page and that link has been fetched.
C17_Witness ==
    /\ mpc = "join"
    /\ unfinished = 0
    /\ \E e \in enqFrom : e[2] = Seed /\ e[1] # Seed /\ fetched[e[1]] > 0

\* C18: the step of a worker whose fetch yields none changes neither the
\* seen-set nor the result nor the queue and leads to the acknowledgment;
\* the acknowledgment of a URL, when no exception is propagating, changes
\* none of them either and leads to the next dequeue.
C18_NoneLeavesCrawlUnchanged ==
    [][\A w \in Workers :
        /\ (/\ wpc[w] = "fetch"
            /\ wpc'[w] # "fetch"
            /\ ~wexc'[w]
            /\ ~cache'[wurl[w]].isPage)
            => /\ wpc'[w] = "ack"
               /\ seen' = seen
               /\ result' = result
               /\ heap' = heap
               /\ queue' = queue
        /\ (/\ wpc[w] = "ack"
            /\ wpc'[w] # "ack"
            /\ wurl[w] # None
            /\ ~wexc[w])
            => /\ wpc'[w] = "get"
               /\ ack'[w] = ack[w] + 1
               /\ seen' = seen
               /\ result' = result
               /\ queue' = queue]_vars

\* C18, witness: the only worker fetched a page outside the base URL, which
\* yielded none, and went on to dequeue and fetch the seed a second time.
C18_Witness ==
    /\ num_workers = 1
    /\ "http://example.com/ext/" \in DOMAIN cache
    /\ ~cache["http://example.com/ext/"].isPage
    /\ fetched["http://example.com/ext/"] = 1
    /\ enqFrom = {<<"http://example.com/ext/", Seed>>, <<Seed, Seed>>}
    /\ fetched[Seed] = 2
    /\ seen = {"http://example.com/ext/", Seed}
    /\ calls = 0

====
